---- MODULE Spec2Model ----
(***************************************************************************)
(* WebPageToCCode: a source tree of website files is walked, deduplicated  *)
(* against gzip siblings, and emitted as C byte arrays, route-serving      *)
(* units and one registerWebsite function.                                 *)
(*                                                                         *)
(* The three generations of the generator in the repository are modelled:  *)
(*   gen = "v1"   the first script (src/unnamed/part_001), arduino only,   *)
(*                which writes to a stream                                 *)
(*   gen = "cli"  src/cli.js, which appends text to the source file        *)
(*   gen = "eta"  the template-driven cli (src/unnamed/part_000) together  *)
(*                with website.c.eta (part_002) and website.cpp.eta        *)
(*                (part_003)                                               *)
(* JavaScript strings are sequences of one-character strings; the output   *)
(* file is a sequence of fragments, one per emitted piece of C text.       *)
(***************************************************************************)
EXTENDS Integers, Sequences, FiniteSets, TLC

(***************************************************************************)
(* Bounds of the explored inputs.                                          *)
(***************************************************************************)
MaxEntries == 2     \* entries of the source root directory
MaxBytes == 2       \* bytes of a file in the encoder specification
MaxName == 2        \* characters of a file name in the formatter specification

(***************************************************************************)
(* JavaScript string primitives.                                           *)
(***************************************************************************)
Lower == <<"a","b","c","d","e","f","g","h","i","j","k","l","m",
           "n","o","p","q","r","s","t","u","v","w","x","y","z">>
Upper == <<"A","B","C","D","E","F","G","H","I","J","K","L","M",
           "N","O","P","Q","R","S","T","U","V","W","X","Y","Z">>
Digit == <<"0","1","2","3","4","5","6","7","8","9">>

\* two letters outside ASCII, each one character of a string: the small
\* sharp s (U+00DF) and the capital sharp s (U+1E9E)
sharpS == "U+00DF"
capitalSharpS == "U+1E9E"

IndexIn(c, alphabet) ==
  IF \E k \in 1..Len(alphabet) : alphabet[k] = c
  THEN CHOOSE k \in 1..Len(alphabet) : alphabet[k] = c
  ELSE 0

\* the pieces of a sequence of strings (the appends of a for..of loop), one
\* after the other
RECURSIVE concat(_)
concat(seqs) == IF seqs = <<>> THEN <<>> ELSE Head(seqs) \o concat(Tail(seqs))

\* String.prototype.toUpperCase: the Unicode upper-case mapping, under which
\* the small sharp s becomes the two letters SS and the capital one stays
toUpperCase(s) ==
  concat([k \in 1..Len(s) |->
            IF s[k] = sharpS THEN <<"S", "S">>
            ELSE IF IndexIn(s[k], Lower) > 0 THEN <<Upper[IndexIn(s[k], Lower)]>>
            ELSE <<s[k]>>])

\* String.prototype.toLowerCase: the capital sharp s becomes the small one
toLowerCase(s) ==
  [k \in 1..Len(s) |->
     IF s[k] = capitalSharpS THEN sharpS
     ELSE IF IndexIn(s[k], Upper) > 0 THEN Lower[IndexIn(s[k], Upper)]
     ELSE s[k]]

endsWith(s, suffix) ==
  /\ Len(suffix) <= Len(s)
  /\ SubSeq(s, Len(s) - Len(suffix) + 1, Len(s)) = suffix

startsWith(s, prefix) ==
  /\ Len(prefix) <= Len(s)
  /\ SubSeq(s, 1, Len(prefix)) = prefix

\* arr.includes(item)
includes(arr, item) == \E k \in 1..Len(arr) : arr[k] = item

\* positions at which pattern occurs in s
Occurrences(s, pattern) ==
  {k \in 1..(Len(s) - Len(pattern) + 1) : SubSeq(s, k, k + Len(pattern) - 1) = pattern}

\* s.split(pattern)[0]: the text before the first occurrence of pattern
splitFirst(s, pattern) ==
  IF Occurrences(s, pattern) = {} THEN s
  ELSE LET first == CHOOSE k \in Occurrences(s, pattern) :
                      \A j \in Occurrences(s, pattern) : k <= j
       IN SubSeq(s, 1, first - 1)

\* s.slice(0, -n)
sliceEnd(s, n) == SubSeq(s, 1, Len(s) - n)

\* the text after the last occurrence of a one-character separator (all of s if none)
afterLast(s, sep) ==
  LET at == {k \in 1..Len(s) : s[k] = sep}
  IN IF at = {} THEN s
     ELSE SubSeq(s, (CHOOSE k \in at : \A j \in at : j <= k) + 1, Len(s))

GZ == <<".","g","z">>
gz == <<"g","z">>
SLASH == <<"/">>
indexHtml == <<"i","n","d","e","x",".","h","t","m","l">>

(***************************************************************************)
(* The `mime` package's getType: the extension of the last path segment,   *)
(* lower-cased, looked up in the type table; null when it is unknown.      *)
(***************************************************************************)
Null == "null"

mimeTypes(ext) ==
  CASE ext = <<"h","t","m","l">> -> "text/html"
    [] ext = <<"j","s">>         -> "application/javascript"
    [] ext = <<"c","s","s">>     -> "text/css"
    [] ext = <<"s","v","g">>     -> "image/svg+xml"
    [] ext = <<"s","v","g","z">> -> "image/svg+xml"
    [] ext = <<"g","z">>         -> "application/gzip"
    [] OTHER                     -> Null

getType(path) ==
  LET last == toLowerCase(afterLast(path, "/"))
      ext == afterLast(last, ".")
      hasPath == Len(last) < Len(path)
      hasDot == Len(ext) < Len(last) - 1
  IN IF hasDot \/ ~hasPath THEN mimeTypes(ext) ELSE Null

(***************************************************************************)
(* formatName: upper-case, then every character outside [a-zA-Z0-9]        *)
(* becomes `_`.                                                            *)
(***************************************************************************)
isAlnum(c) == IndexIn(c, Lower) > 0 \/ IndexIn(c, Upper) > 0 \/ IndexIn(c, Digit) > 0

\* a formatter that forgets the upper-casing
formatNameKeepsCase(fileName) ==
  [k \in 1..Len(fileName) |-> IF isAlnum(fileName[k]) THEN fileName[k] ELSE "_"]

formatName(fileName) ==
  LET up == toUpperCase(fileName)
  IN [k \in 1..Len(up) |-> IF isAlnum(up[k]) THEN up[k] ELSE "_"]

(***************************************************************************)
(* The source tree.  A directory is its listing in readdir order; an entry *)
(* is a regular file with its bytes or a directory with its own listing.   *)
(***************************************************************************)
File(name, bytes) == [name |-> name, dir |-> FALSE, bytes |-> bytes, sub |-> <<>>]
Dir(name, sub) == [name |-> name, dir |-> TRUE, bytes |-> <<>>, sub |-> sub]

aJs == <<"a",".","j","s">>
note == <<"n","o","t","e">>
pSvgz == <<"p",".","s","v","g","z">>
qCss == <<"q",".","g","z",".","c","s","s">>

\* names of regular files in the root directory
FileNames ==
  {indexHtml, indexHtml \o GZ, indexHtml \o GZ \o GZ, aJs, aJs \o GZ, qCss \o GZ, note, pSvgz}
\* names of regular files in sub-directories
SubFileNames == {indexHtml, aJs \o GZ}
\* names of directories of the root
DirNames == {<<"d">>, aJs, aJs \o GZ}

DefaultBytes == <<10, 255>>

SeqsUpTo(S, n) == UNION {[1..k -> S] : k \in 0..n}
DistinctNames(l) == \A a, b \in 1..Len(l) : a # b => l[a].name # l[b].name
ListingsOf(S, n) == {l \in SeqsUpTo(S, n) : DistinctNames(l)}

LeafListings == ListingsOf({File(f, DefaultBytes) : f \in SubFileNames}, 1)
InnerEntries ==
  {File(f, DefaultBytes) : f \in SubFileNames} \cup {Dir(<<"d">>, l) : l \in LeafListings}
InnerListings == ListingsOf(InnerEntries, 1)
RootEntries ==
  {File(f, DefaultBytes) : f \in FileNames}
    \cup {Dir(d, l) : d \in DirNames, l \in InnerListings}
Trees == ListingsOf(RootEntries, MaxEntries)

\* promises.readFile(`${rootDir}/${fileName}`): the bytes of the regular file at
\* a relative path, or "ENOENT" when the path names no regular file
RECURSIVE readFile(_, _)
readFile(listing, path) ==
  LET hits == {k \in 1..Len(listing) :
                 \/ ~listing[k].dir /\ listing[k].name = path
                 \/ listing[k].dir /\ startsWith(path, listing[k].name \o SLASH)}
  IN IF hits = {} THEN "ENOENT"
     ELSE LET e == listing[CHOOSE k \in hits : TRUE]
          IN IF e.dir
             THEN readFile(e.sub, SubSeq(path, Len(e.name) + 2, Len(path)))
             ELSE e.bytes

(***************************************************************************)
(* getFiles of cli.js (and, unchanged, of the template-driven cli).        *)
(***************************************************************************)
Asset(file, mime) == [file |-> file, mime |-> mime]

entryNames(source) == [k \in 1..Len(source) |-> source[k].name]

\* readdir(source).filter(item => item.endsWith('.gz') || !arr.includes(item + '.gz'))
allFilesOfDirectory(source) ==
  SelectSeq(source, LAMBDA e :
    endsWith(e.name, GZ) \/ ~includes(entryNames(source), e.name \o GZ))

\* subDir.forEach(value => value.file = `${file}/${value.file}`)
prefixed(dirName, subDir) ==
  [k \in 1..Len(subDir) |-> Asset(dirName \o SLASH \o subDir[k].file, subDir[k].mime)]

RECURSIVE getFiles(_)
RECURSIVE walkEntries(_)
walkEntries(entries) ==
  IF entries = <<>> THEN <<>>
  ELSE LET file == Head(entries)
           found ==
             IF file.dir THEN prefixed(file.name, getFiles(file.sub))
             ELSE IF endsWith(file.name, GZ)
                  THEN <<Asset(file.name, getType(splitFirst(file.name, GZ)))>>
                  ELSE <<Asset(file.name, getType(file.name))>>
       IN found \o walkEntries(Tail(entries))

\* a walk that visits the sub-directories of a directory after its files
getFilesDirectoriesLast(source) ==
  walkEntries(SelectSeq(allFilesOfDirectory(source), LAMBDA e : ~e.dir)
                \o SelectSeq(allFilesOfDirectory(source), LAMBDA e : e.dir))

getFiles(source) == walkEntries(allFilesOfDirectory(source))

(***************************************************************************)
(* Emitted text.  Every piece of C text the generator emits is one         *)
(* fragment:                                                               *)
(*   copyright, template      the head of the source file                  *)
(*   length      const size_t <id>_Length = <n>;                           *)
(*   array_open  const char <id>[] = {        (b: PROGMEM qualifier)       *)
(*   hex         0x<s>                        (b: followed by `, `)        *)
(*   byteArray   the byteArray partial of the templates, over n bytes      *)
(*   array_close };                                                        *)
(*   unit_open   void <id>Page() {                                         *)
(*   gzip_header   sendHeader("Content-Encoding", "gzip");                 *)
(*   send_P        send_P(200, "<m>", <ref>, ...); }                       *)
(*   send          send(200, "<m>"); sendContent(<ref>, ...); };           *)
(*   banner, include   the head the first script writes                    *)
(*   web_content struct web_content st_<id> = { .compression = <b>,        *)
(*                 .content_type = "<m>" };                                *)
(*   uri_record  httpd_uri_t <id>Page = { .uri = "<s>",                    *)
(*                 .user_ctx = &st_<ref> };                                *)
(*   reg_open    void registerWebsite(...) {                               *)
(*   reg_stmt    server.on("<s>", <id>Page);  or                           *)
(*               httpd_register_uri_handler(server, &<id>Page);            *)
(*   close_brace }                                                         *)
(*   fallback_fns  regiterFallbackWebsite and unregisterFallbackWebsite    *)
(***************************************************************************)
Frag(k) == [k |-> k, id |-> <<>>, s |-> <<>>, ref |-> <<>>, m |-> "", n |-> 0, b |-> FALSE]

HexDigits == <<"0","1","2","3","4","5","6","7","8","9","a","b","c","d","e","f">>

\* byte.toString(16)
toString16(byte) ==
  IF byte < 16 THEN <<HexDigits[byte + 1]>>
  ELSE <<HexDigits[(byte \div 16) + 1], HexDigits[(byte % 16) + 1]>>

\* the symbols of the fixed records of the esp-idf variants
indexHtmlPage == <<"i","n","d","e","x","_","h","t","m","l","_">>
fallbackPage == <<"f","a","l","l","b","a","c","k","_","p","a","g","e">>
ROOT == SLASH
STAR == <<"*">>

(***************************************************************************)
(* cli.js writeFileData: the fragments appended for one file, and whether  *)
(* the call throws (the last append reads data[length-1], which is         *)
(* undefined for an empty buffer).                                         *)
(***************************************************************************)
writeFileData(fw, fileName, data) ==
  LET name == formatName(fileName)
      length == Len(data)
      buffer == sliceEnd(data, 1)
      head == << [Frag("length") EXCEPT !.id = name, !.n = length],
                 [Frag("array_open") EXCEPT !.id = name, !.b = (fw # "esp-idf")] >>
      body == [k \in 1..Len(buffer) |->
                 [Frag("hex") EXCEPT !.s = toString16(buffer[k]), !.b = TRUE]]
  IN IF length = 0
     THEN [frags |-> head \o body, throws |-> TRUE]
     ELSE [frags |-> head \o body \o
                     << [Frag("hex") EXCEPT !.s = toString16(data[length])],
                        Frag("array_close") >>,
           throws |-> FALSE]

(***************************************************************************)
(* cli.js writeFunctions: nothing is written for a null mimetype.          *)
(***************************************************************************)
writeFunctions(fw, fileName, mimetype) ==
  LET name == formatName(fileName)
  IN IF mimetype = Null THEN <<>>
     ELSE IF fw = "esp-idf"
     THEN << [Frag("web_content") EXCEPT !.id = name, !.ref = name, !.m = mimetype,
                                         !.b = endsWith(fileName, GZ)] >>
     ELSE << [Frag("unit_open") EXCEPT !.id = name] >>
          \o (IF endsWith(fileName, GZ) THEN <<Frag("gzip_header")>> ELSE <<>>)
          \o << [Frag("send_P") EXCEPT !.ref = name, !.m = mimetype] >>

(***************************************************************************)
(* cli.js writeRegisterFunction.                                           *)
(***************************************************************************)
\* esp-idf: the records appended for one file, and its lines of `register`
espRecords(file) ==
  LET name == formatName(file)
      fileNameWoCompression == splitFirst(file, GZ)
  IN (IF fileNameWoCompression = indexHtml
      THEN << [Frag("uri_record") EXCEPT !.id = indexHtmlPage, !.s = ROOT, !.ref = name] >>
      ELSE <<>>)
     \o << [Frag("uri_record") EXCEPT !.id = name,
                                      !.s = SLASH \o fileNameWoCompression, !.ref = name] >>

espRegister(file) ==
  LET name == formatName(file)
      fileNameWoCompression == splitFirst(file, GZ)
  IN (IF fileNameWoCompression = indexHtml
      THEN << [Frag("reg_stmt") EXCEPT !.id = indexHtmlPage] >>
      ELSE <<>>)
     \o << [Frag("reg_stmt") EXCEPT !.id = name] >>

\* arduino: the appends of one iteration; the second one ends with `}`
arduinoRegister(file) ==
  LET name == formatName(file)
      fileNameWoCompression == splitFirst(file, GZ)
  IN (IF fileNameWoCompression = indexHtml
      THEN << [Frag("reg_stmt") EXCEPT !.id = name, !.s = ROOT] >>
      ELSE <<>>)
     \o << [Frag("reg_stmt") EXCEPT !.id = name, !.s = SLASH \o fileNameWoCompression],
           Frag("close_brace") >>

writeRegisterFunction(fw, fileNames) ==
  IF fw = "esp-idf"
  THEN concat([k \in 1..Len(fileNames) |-> espRecords(fileNames[k])])
       \o <<Frag("reg_open")>>
       \o concat([k \in 1..Len(fileNames) |-> espRegister(fileNames[k])])
       \o <<Frag("close_brace")>>
  ELSE <<Frag("reg_open")>> \o concat([k \in 1..Len(fileNames) |-> arduinoRegister(fileNames[k])])

(***************************************************************************)
(* The first script (part_001): its walk, its dedup in main, its writers.  *)
(***************************************************************************)
\* getFiles: every regular file of the tree, as a relative path
RECURSIVE getFiles1(_)
getFiles1(source) ==
  IF source = <<>> THEN <<>>
  ELSE LET file == Head(source)
       IN (IF file.dir
           THEN LET subFolder == getFiles1(file.sub)
                IN [k \in 1..Len(subFolder) |-> file.name \o SLASH \o subFolder[k]]
           ELSE <<file.name>>)
          \o getFiles1(Tail(source))

\* main: files.map(...) and files.filter(file => file !== null); a name ending
\* in .gz maps to null, any other to itself or to its .gz sibling
dedup1(paths) ==
  LET kept == SelectSeq(paths, LAMBDA file : ~endsWith(file, GZ))
  IN [k \in 1..Len(kept) |->
        IF includes(paths, kept[k] \o GZ)
        THEN Asset(kept[k] \o GZ, getType(kept[k]))
        ELSE Asset(kept[k], getType(kept[k]))]

RECURSIVE replaceAll(_, _, _)
\* s.split(c).join(r)
replaceAll(s, c, r) ==
  IF s = <<>> THEN <<>>
  ELSE <<IF Head(s) = c THEN r ELSE Head(s)>> \o replaceAll(Tail(s), c, r)

adjustName(fileName) ==
  replaceAll(replaceAll(replaceAll(toUpperCase(fileName), ".", "_"), "-", "_"), "/", "_")

writeData(file, data) ==
  LET name == adjustName(file)
      length == Len(data)
      buffer == sliceEnd(data, 1)
      head == << [Frag("length") EXCEPT !.id = name, !.n = length],
                 [Frag("array_open") EXCEPT !.id = name, !.b = TRUE] >>
      body == [k \in 1..Len(buffer) |->
                 [Frag("hex") EXCEPT !.s = toString16(buffer[k]), !.b = TRUE]]
  IN IF length = 0
     THEN [frags |-> head \o body, throws |-> TRUE]
     ELSE [frags |-> head \o body \o
                     << [Frag("hex") EXCEPT !.s = toString16(data[length])],
                        Frag("array_close") >>,
           throws |-> FALSE]

writeFunctions1(file, mimetype) ==
  LET name == adjustName(file)
  IN IF mimetype = Null THEN <<>>
     ELSE << [Frag("unit_open") EXCEPT !.id = name] >>
          \o (IF endsWith(file, GZ) THEN <<Frag("gzip_header")>> ELSE <<>>)
          \o << [Frag("send") EXCEPT !.ref = name, !.m = mimetype] >>

register1(file) ==
  LET name == adjustName(file)
      filename_without_compression == splitFirst(file, GZ)
  IN (IF filename_without_compression = indexHtml
      THEN << [Frag("reg_stmt") EXCEPT !.id = name, !.s = ROOT] >>
      ELSE <<>>)
     \o << [Frag("reg_stmt") EXCEPT !.id = name,
                                    !.s = SLASH \o filename_without_compression] >>

writeRegisterFunction1(fileNames) ==
  <<Frag("reg_open")>>
    \o concat([k \in 1..Len(fileNames) |-> register1(fileNames[k])])
    \o <<Frag("close_brace")>>

(***************************************************************************)
(* The templates website.cpp.eta (arduino) and website.c.eta (esp-idf),    *)
(* rendered over it.files.                                                 *)
(***************************************************************************)
\* the route path both templates print
etaUri(file) ==
  SLASH \o (IF endsWith(toLowerCase(file), GZ) THEN sliceEnd(file, 3) ELSE file)

etaArray(fw, file, content) ==
  << [Frag("array_open") EXCEPT !.id = formatName(file), !.b = (fw # "esp-idf")],
     [Frag("byteArray") EXCEPT !.n = Len(content)],
     Frag("array_close") >>

\* website.cpp.eta: one Page function per file
cppUnit(f) ==
  << [Frag("unit_open") EXCEPT !.id = formatName(f.file)] >>
  \o (IF endsWith(toLowerCase(f.file), gz) THEN <<Frag("gzip_header")>> ELSE <<>>)
  \o << [Frag("send_P") EXCEPT !.ref = formatName(f.file), !.m = f.mime] >>

\* website.cpp.eta: the body of registerWebsite for one file
cppRegister(f) ==
  << [Frag("reg_stmt") EXCEPT !.id = formatName(f.file), !.s = etaUri(f.file)] >>
  \o (IF startsWith(toLowerCase(f.file), indexHtml)
      THEN << [Frag("reg_stmt") EXCEPT !.id = formatName(f.file), !.s = ROOT] >>
      ELSE <<>>)

\* website.c.eta: the records of one file
cUnit(f) ==
  << [Frag("web_content") EXCEPT !.id = formatName(f.file), !.ref = formatName(f.file),
                                 !.m = f.mime, !.b = endsWith(f.file, gz)],
     [Frag("uri_record") EXCEPT !.id = formatName(f.file), !.s = etaUri(f.file),
                                !.ref = formatName(f.file)] >>
  \o (IF startsWith(toLowerCase(f.file), indexHtml)
      THEN << [Frag("uri_record") EXCEPT !.id = fallbackPage, !.s = STAR,
                                         !.ref = formatName(f.file)] >>
      ELSE <<>>)

cRegister(f) == << [Frag("reg_stmt") EXCEPT !.id = formatName(f.file)] >>

renderSource(fw, fs, root) ==
  LET array(f) == etaArray(fw, f.file, readFile(root, f.file))
  IN <<Frag("copyright"), Frag("template")>>
     \o concat([k \in 1..Len(fs) |-> array(fs[k])])
     \o (IF fw = "esp-idf"
         THEN concat([k \in 1..Len(fs) |-> cUnit(fs[k])])
              \o <<Frag("reg_open")>>
              \o concat([k \in 1..Len(fs) |-> cRegister(fs[k])])
              \o <<Frag("close_brace")>>
              \o << [Frag("fallback_fns") EXCEPT !.ref = fallbackPage] >>
         ELSE concat([k \in 1..Len(fs) |-> cppUnit(fs[k])])
              \o <<Frag("reg_open")>>
              \o concat([k \in 1..Len(fs) |-> cppRegister(fs[k])])
              \o <<Frag("close_brace")>>)

(***************************************************************************)
(* The run of main.  The environment may make one filesystem operation of  *)
(* a run fail; `failed` names the step it failed in.  The first script     *)
(* writes through a stream (createWriteStream): its writes are queued and  *)
(* reach the file later, so `flushed` counts the fragments of `out` the    *)
(* stream has written; append and writeFile complete when awaited.         *)
(***************************************************************************)
VARIABLES
  gen,         \* which generator runs: "v1", "cli" or "eta"
  framework,   \* argv.framework
  tree,        \* the listing of the source directory
  pc,          \* the await main is at
  files,       \* const files, the asset list
  i,           \* the index of the running for..of loop
  header,      \* website.h in the target directory: "none", "stale" or "written"
  out,         \* the fragments of the source file in the target directory
  flushed,     \* how many fragments of out are on disk
  failed,      \* the step whose filesystem operation failed, or "none"
  returnCode,  \* let returnCode
  result       \* what main returned: "none" while it runs

vars == <<gen, framework, tree, pc, files, i, header, out, flushed, failed, returnCode, result>>

Generators == {"v1", "cli", "eta"}
Frameworks == {"arduino", "esp-idf"}

\* the target directory before the run: empty, or holding the files of an
\* earlier run
InitWith(T) ==
  /\ gen \in Generators
  /\ framework \in IF gen = "v1" THEN {"arduino"} ELSE Frameworks
  /\ tree \in T
  /\ pc = "mkdir"
  /\ files = <<>>
  /\ i = 1
  /\ out \in {<<>>, <<Frag("stale")>>}
  /\ header = IF out = <<>> THEN "none" ELSE "stale"
  /\ flushed = Len(out)
  /\ failed = "none"
  /\ returnCode = "0"
  /\ result = "none"

Init == InitWith(Trees)

\* a rejected promise inside the second try of main: cli.js and the
\* template-driven cli set returnCode = error.errno and fall off the end of
\* main, the first script returns -1
Throws(step) ==
  /\ failed = "none"
  /\ failed' = step
  /\ pc' = "returned"
  /\ IF gen = "v1"
     THEN result' = "-1" /\ UNCHANGED returnCode
     ELSE result' = "undefined" /\ returnCode' = "errno"

\* if (!existsSync(targetDir)) await promises.mkdir(targetDir); a failing
\* mkdir returns -1
Mkdir ==
  /\ pc = "mkdir"
  /\ \/ /\ pc' = CASE gen = "v1" -> "copyFile"
                   [] gen = "cli" -> "createHeader"
                   [] OTHER -> "renderHeader"
        /\ UNCHANGED <<failed, result>>
     \/ /\ header = "none"
        /\ failed' = "mkdir"
        /\ result' = "-1"
        /\ pc' = "returned"
  /\ UNCHANGED <<gen, framework, tree, files, i, header, out, flushed, returnCode>>

\* cli.js createHeader: its catch logs the error and returns normally
CreateHeader ==
  /\ pc = "createHeader"
  /\ \/ header' = "written" /\ UNCHANGED failed
     \/ failed = "none" /\ failed' = "createHeader" /\ UNCHANGED header
  /\ pc' = "getFiles"
  /\ UNCHANGED <<gen, framework, tree, files, i, out, flushed, returnCode, result>>

\* the template-driven cli: render website.h.eta and write it
RenderHeader ==
  /\ pc = "renderHeader"
  /\ \/ /\ header' = "written"
        /\ pc' = "getFiles"
        /\ UNCHANGED <<failed, returnCode, result>>
     \/ Throws("renderHeader") /\ UNCHANGED header
  /\ UNCHANGED <<gen, framework, tree, files, i, out, flushed>>

\* const files = await getFiles(sourceDir)
GetFiles ==
  /\ pc = "getFiles"
  /\ \/ /\ files' = getFiles(tree)
        /\ pc' = IF gen = "cli" THEN "createSourceFile" ELSE "renderSource"
        /\ UNCHANGED <<failed, returnCode, result>>
     \/ Throws("getFiles") /\ UNCHANGED files
  /\ UNCHANGED <<gen, framework, tree, i, header, out, flushed>>

\* cli.js createSourceFile: writeFile replaces the file, appendFile adds the
\* template; its catch logs the error and returns normally
CreateSourceFile ==
  /\ pc = "createSourceFile"
  /\ \/ /\ out' = <<Frag("copyright"), Frag("template")>>
        /\ flushed' = Len(out')
        /\ UNCHANGED failed
     \/ /\ failed = "none"
        /\ failed' = "createSourceFile"
        /\ UNCHANGED <<out, flushed>>
  /\ i' = 1
  /\ pc' = IF files = <<>> THEN "writeRegisterFunction" ELSE "writeFileData"
  /\ UNCHANGED <<gen, framework, tree, files, header, returnCode, result>>

\* one iteration of the first loop of main; a throw is caught by main, which
\* sets returnCode to error.errno and falls off its end
WriteFileData ==
  /\ pc = "writeFileData"
  /\ \/ LET w == writeFileData(framework, files[i].file, readFile(tree, files[i].file))
        IN /\ out' = out \o w.frags
           /\ flushed' = Len(out')
           /\ UNCHANGED failed
           /\ IF w.throws
              THEN /\ returnCode' = "undefined"
                   /\ result' = "undefined"
                   /\ pc' = "returned"
                   /\ i' = i
              ELSE /\ UNCHANGED <<returnCode, result>>
                   /\ pc' = IF i < Len(files) THEN "writeFileData" ELSE "writeFunctions"
                   /\ i' = IF i < Len(files) THEN i + 1 ELSE 1
     \/ /\ \E step \in {"readFile", "appendFile"} : Throws(step)
        /\ UNCHANGED <<out, flushed, i>>
  /\ UNCHANGED <<gen, framework, tree, files, header>>

\* one iteration of the second loop of main
WriteFunctions ==
  /\ pc = "writeFunctions"
  /\ \/ /\ out' = out \o writeFunctions(framework, files[i].file, files[i].mime)
        /\ flushed' = Len(out')
        /\ pc' = IF i < Len(files) THEN "writeFunctions" ELSE "writeRegisterFunction"
        /\ i' = IF i < Len(files) THEN i + 1 ELSE 1
        /\ UNCHANGED <<failed, returnCode, result>>
     \/ /\ files[i].mime # Null
        /\ Throws("appendFile")
        /\ UNCHANGED <<out, flushed, i>>
  /\ UNCHANGED <<gen, framework, tree, files, header>>

\* await writeRegisterFunction(...); return returnCode
WriteRegisterFunction ==
  /\ pc = "writeRegisterFunction"
  /\ \/ /\ out' = out \o writeRegisterFunction(framework, [k \in 1..Len(files) |-> files[k].file])
        /\ flushed' = Len(out')
        /\ result' = returnCode
        /\ pc' = "returned"
        /\ UNCHANGED <<failed, returnCode>>
     \/ Throws("appendFile") /\ UNCHANGED <<out, flushed>>
  /\ UNCHANGED <<gen, framework, tree, files, i, header>>

\* the template-driven cli: render the source template (getContent reads
\* every file), write it, return returnCode
RenderSource ==
  /\ pc = "renderSource"
  /\ \/ /\ out' = renderSource(framework, files, tree)
        /\ flushed' = Len(out')
        /\ result' = returnCode
        /\ pc' = "returned"
        /\ UNCHANGED <<failed, returnCode>>
     \/ /\ \E step \in (IF files = <<>> THEN {"writeFile"} ELSE {"readFile", "writeFile"}) :
             Throws(step)
        /\ UNCHANGED <<out, flushed>>
  /\ UNCHANGED <<gen, framework, tree, files, i, header>>

\* first script: copyFile(template_header, `${target}/website.h`)
CopyFile ==
  /\ pc = "copyFile"
  /\ \/ /\ header' = "written"
        /\ pc' = "getFiles1"
        /\ UNCHANGED <<failed, returnCode, result>>
     \/ Throws("copyFile") /\ UNCHANGED header
  /\ UNCHANGED <<gen, framework, tree, files, i, out, flushed>>

\* first script: files = await getFiles(source)
GetFiles1 ==
  /\ pc = "getFiles1"
  /\ \/ /\ files' = getFiles1(tree)
        /\ pc' = "writeHeader"
        /\ UNCHANGED <<failed, returnCode, result>>
     \/ Throws("getFiles") /\ UNCHANGED files
  /\ UNCHANGED <<gen, framework, tree, i, header, out, flushed>>

\* first script: createWriteStream (which truncates the file), writeHeader,
\* then the map and the filter; fileHandle.write queues its text and returns
\* a boolean, so the await does not wait for the write
WriteHeader ==
  /\ pc = "writeHeader"
  /\ out' = <<Frag("banner"), Frag("include")>>
  /\ flushed' = 0
  /\ files' = dedup1(files)
  /\ i' = 1
  /\ pc' = IF dedup1(files) = <<>> THEN "writeRegisterFunction1" ELSE "writeData"
  /\ UNCHANGED <<gen, framework, tree, header, failed, returnCode, result>>

\* first script: one iteration of the first loop; its catch returns -1
WriteData ==
  /\ pc = "writeData"
  /\ \/ LET w == writeData(files[i].file, readFile(tree, files[i].file))
        IN /\ out' = out \o w.frags
           /\ UNCHANGED failed
           /\ IF w.throws
              THEN /\ result' = "-1"
                   /\ pc' = "returned"
                   /\ i' = i
              ELSE /\ UNCHANGED result
                   /\ pc' = IF i < Len(files) THEN "writeData" ELSE "writeFunctions1"
                   /\ i' = IF i < Len(files) THEN i + 1 ELSE 1
     \/ Throws("readFile") /\ UNCHANGED <<out, i>>
  /\ UNCHANGED <<gen, framework, tree, files, header, flushed, returnCode>>

\* first script: one iteration of the second loop
WriteFunctions1 ==
  /\ pc = "writeFunctions1"
  /\ out' = out \o writeFunctions1(files[i].file, files[i].mime)
  /\ pc' = IF i < Len(files) THEN "writeFunctions1" ELSE "writeRegisterFunction1"
  /\ i' = IF i < Len(files) THEN i + 1 ELSE 1
  /\ UNCHANGED <<gen, framework, tree, files, header, flushed, failed, returnCode, result>>

\* first script: writeRegisterFunction, sourceFile.close(), return 0
WriteRegisterFunction1 ==
  /\ pc = "writeRegisterFunction1"
  /\ out' = out \o writeRegisterFunction1([k \in 1..Len(files) |-> files[k].file])
  /\ result' = "0"
  /\ pc' = "returned"
  /\ UNCHANGED <<gen, framework, tree, files, i, header, flushed, failed, returnCode>>

\* first script: the stream writes what is queued to the file
Drain ==
  /\ gen = "v1"
  /\ flushed < Len(out)
  /\ flushed' = Len(out)
  /\ UNCHANGED <<gen, framework, tree, pc, files, i, header, out, failed, returnCode, result>>

Next ==
  \/ Mkdir
  \/ CopyFile
  \/ GetFiles1
  \/ WriteHeader
  \/ WriteData
  \/ WriteFunctions1
  \/ WriteRegisterFunction1
  \/ Drain
  \/ CreateHeader
  \/ RenderHeader
  \/ GetFiles
  \/ CreateSourceFile
  \/ WriteFileData
  \/ WriteFunctions
  \/ WriteRegisterFunction
  \/ RenderSource

Spec == Init /\ [][Next]_vars

(***************************************************************************)
(* The encoder specification: the source root holds one or two files, of   *)
(* every content of at most MaxBytes bytes.                                *)
(***************************************************************************)
Bytes == {0, 10, 255}
Contents == SeqsUpTo(Bytes, MaxBytes)
EncFiles == {File(f, c) : f \in {indexHtml, aJs}, c \in Contents}
EncTrees == {l \in ListingsOf(EncFiles, 2) : l # <<>>}

InitEnc == InitWith(EncTrees)
SpecEnc == InitEnc /\ [][Next]_vars

(***************************************************************************)
(* The formatter specification: the source root holds one file of every    *)
(* name of at most MaxName characters, alone, beside a file whose name     *)
(* differs from its own only in letter case, or inside a directory.        *)
(***************************************************************************)
FmtChars == {"a", "A", "1", ".", " ", sharpS, capitalSharpS}
FmtNames == SeqsUpTo(FmtChars, MaxName) \ {<<>>, <<".">>, <<".", ".">>}
FmtFile(n) == File(n, DefaultBytes)
FmtTrees ==
  {<<FmtFile(n)>> : n \in FmtNames}
    \cup {<<Dir(<<"d">>, <<FmtFile(n)>>)>> : n \in FmtNames}
    \cup UNION {{<<FmtFile(n), FmtFile(v)>> :
                   v \in {w \in FmtNames : w # n /\ toLowerCase(w) = toLowerCase(n)}} :
                n \in FmtNames}

InitFmt == InitWith(FmtTrees)
SpecFmt == InitFmt /\ [][Next]_vars

(***************************************************************************)
(* The ordering specification: up to MaxEntries entries in the source      *)
(* root, among them a directory of up to two entries that may hold a       *)
(* directory of its own.                                                   *)
(***************************************************************************)
OrderFiles == {File(f, DefaultBytes) : f \in {indexHtml, aJs, note}}
OrderInner ==
  ListingsOf({File(indexHtml, DefaultBytes), Dir(<<"e">>, <<File(note, DefaultBytes)>>)}, 2)
OrderTrees == ListingsOf(OrderFiles \cup {Dir(<<"d">>, l) : l \in OrderInner}, MaxEntries)

InitOrder == InitWith(OrderTrees)
SpecOrder == InitOrder /\ [][Next]_vars

(***************************************************************************)
(* Vocabulary of the properties.                                           *)
(***************************************************************************)
\* the walk has produced the asset list (the run has passed the walk and did
\* not end before it)
Walked ==
  /\ pc \notin {"mkdir", "copyFile", "getFiles1", "writeHeader",
                "createHeader", "renderHeader", "getFiles"}
  /\ failed \notin {"mkdir", "copyFile", "renderHeader", "getFiles"}
\* main has returned
Returned == pc = "returned"
\* main has returned 0
Done == pc = "returned" /\ result = "0"

\* the identifier the running generator derives from a relative path
SymbolOf(path) == IF gen = "v1" THEN adjustName(path) ELSE formatName(path)

\* the logical name: the stored name without one trailing `.gz`
logical(path) == IF endsWith(path, GZ) THEN sliceEnd(path, 3) ELSE path

\* the directories of a tree, each with the prefix of its entries' relative paths
RECURSIVE Directories(_, _)
Directories(listing, prefix) ==
  {[prefix |-> prefix, listing |-> listing]}
    \cup UNION {Directories(listing[k].sub, prefix \o listing[k].name \o SLASH) :
                  k \in {j \in 1..Len(listing) : listing[j].dir}}

\* the relative paths of the regular files of a tree
RegularFiles(root) ==
  UNION {{d.prefix \o d.listing[k].name : k \in {j \in 1..Len(d.listing) : ~d.listing[j].dir}} :
           d \in Directories(root, <<>>)}

AssetsWithLogical(path) == {k \in 1..Len(files) : logical(files[k].file) = path}

Positions(kinds) == {p \in 1..Len(out) : out[p].k \in kinds}

\* the routes the registration function binds, as <<path, served symbol>>:
\* server.on names both; an esp-idf statement names a record that does
Bindings ==
  {<<out[p].s, out[p].id>> : p \in {q \in Positions({"reg_stmt"}) : out[q].s # <<>>}}
    \cup {<<out[r].s, out[r].ref>> :
            r \in {q \in Positions({"uri_record"}) :
                     \E p \in Positions({"reg_stmt"}) : out[p].s = <<>> /\ out[p].id = out[q].id}}

ServedAt(path) == {b[2] : b \in {c \in Bindings : c[1] = path}}

\* what the root route serves: the bindings of `/` and, in website.c.eta, the
\* wildcard fallback_page record that stands for it
ServedAtRoot ==
  ServedAt(ROOT)
    \cup {out[p].ref : p \in {q \in Positions({"uri_record"}) : out[q].id = fallbackPage}}

\* the per-asset routes in emission order (the extra root and fallback entries left out)
AssetRoutes ==
  LET picked == SelectSeq(out, LAMBDA f :
                  \/ f.k = "reg_stmt" /\ f.s # <<>> /\ f.s # ROOT
                  \/ f.k = "uri_record" /\ f.id \notin {indexHtmlPage, fallbackPage})
  IN [k \in 1..Len(picked) |-> picked[k].s]

\* the route-serving units, as <<symbol, carries the gzip indicator>>
Units ==
  {<<out[p].id, out[p].b>> : p \in Positions({"web_content"})}
    \cup {<<out[p].id, p < Len(out) /\ out[p + 1].k = "gzip_header">> :
            p \in Positions({"unit_open"})}

\* C1: in every directory holding both F and F.gz, the asset list has exactly
\* one entry with logical name F, and it is stored as F.gz
C1_Dedup ==
  Walked =>
    \A d \in Directories(tree, <<>>) : \A a, b \in 1..Len(d.listing) :
      d.listing[b].name = d.listing[a].name \o GZ =>
        LET F == d.prefix \o d.listing[a].name
        IN /\ Cardinality(AssetsWithLogical(F)) = 1
           /\ \A k \in AssetsWithLogical(F) : files[k].file = F \o GZ

\* C2: every regular file of the tree is in the asset list, itself or as its
\* .gz sibling, under its relative path; no asset is a directory
C2_WalkCoverage ==
  Walked =>
    /\ \A path \in RegularFiles(tree) :
         \E k \in 1..Len(files) :
           \/ files[k].file = path
           \/ files[k].file = path \o GZ /\ path \o GZ \in RegularFiles(tree)
    /\ \A k \in 1..Len(files) : files[k].file \in RegularFiles(tree)

\* C3: the content type of a .gz asset is the type looked up for its stored
\* name without that one trailing .gz
C3_ContentTypeStability ==
  Walked =>
    \A k \in 1..Len(files) :
      endsWith(files[k].file, GZ) =>
        files[k].mime = getType(sliceEnd(afterLast(files[k].file, "/"), 3))

\* C4: a route for / is bound iff an asset has the logical relative path
\* index.html, and then / serves what /index.html serves
C4_RootRoute ==
  Done =>
    /\ ServedAtRoot # {} <=> AssetsWithLogical(indexHtml) # {}
    /\ ServedAtRoot # {} => ServedAtRoot = ServedAt(SLASH \o indexHtml)

\* C5: at most one binding of / and at most one fallback_page or
\* index_html_Page record
C5_AtMostOneFallback ==
  Done =>
    /\ Cardinality({p \in Positions({"reg_stmt"}) : out[p].s = ROOT}) <= 1
    /\ Cardinality({p \in Positions({"uri_record"}) : out[p].id = indexHtmlPage}) <= 1
    /\ Cardinality({p \in Positions({"uri_record"}) : out[p].id = fallbackPage}) <= 1

\* C6: as many byte arrays as route-serving units as per-asset registration
\* statements as assets
C6_Completeness ==
  Done =>
    /\ Cardinality(Positions({"array_open"})) = Len(files)
    /\ Cardinality(Positions({"unit_open", "web_content"})) = Len(files)
    /\ Cardinality({p \in Positions({"reg_stmt"}) :
                      out[p].s # ROOT /\ out[p].id # indexHtmlPage}) = Len(files)

\* the value of a hexadecimal literal
RECURSIVE parseHex(_)
parseHex(digits) ==
  IF digits = <<>> THEN 0
  ELSE 16 * parseHex(sliceEnd(digits, 1)) + (IndexIn(digits[Len(digits)], HexDigits) - 1)

\* the array declared at position p of the source file: where it closes (0 if
\* it never does) and the literals in between
ArrayClose(p) ==
  LET later == {q \in Positions({"array_close"}) : q > p}
  IN IF later = {} THEN 0 ELSE CHOOSE q \in later : \A r \in later : q <= r

ArrayLiterals(p) == SubSeq(out, p + 1, ArrayClose(p) - 1)

\* the emitted array of an asset decodes to exactly these bytes, its literals
\* are separated by commas with none after the last, and the length constant
\* before it states their number
EncodesExactly(id, bytes) ==
  \E p \in Positions({"array_open"}) :
    /\ out[p].id = id
    /\ p > 1 /\ out[p - 1].k = "length" /\ out[p - 1].id = id /\ out[p - 1].n = Len(bytes)
    /\ ArrayClose(p) # 0
    /\ LET lits == ArrayLiterals(p)
       IN /\ Len(lits) = Len(bytes)
          /\ \A k \in 1..Len(lits) :
               /\ lits[k].k = "hex"
               /\ parseHex(lits[k].s) = bytes[k]
               /\ lits[k].b <=> k < Len(lits)

\* C7: for every asset the emitted literals decode to the file's bytes in
\* order and the length constant is the byte count, a zero-length file
\* included, and the run completes normally
C7_ByteExactness ==
  (gen # "eta" /\ Returned /\ failed = "none") =>
    /\ result = "0"
    /\ \A k \in 1..Len(files) :
         EncodesExactly(SymbolOf(files[k].file), readFile(tree, files[k].file))

\* C8: registerWebsite is opened once, holds every registration statement,
\* among them one per asset, and is closed once after the last of them
C8_SingleRegistration ==
  Done =>
    /\ Cardinality(Positions({"reg_open"})) = 1
    /\ Cardinality(Positions({"close_brace"})) = 1
    /\ \A o \in Positions({"reg_open"}), c \in Positions({"close_brace"}) :
         /\ o < c
         /\ \A r \in Positions({"reg_stmt"}) : o < r /\ r < c
    /\ Cardinality({p \in Positions({"reg_stmt"}) :
                      out[p].s # ROOT /\ out[p].id # indexHtmlPage}) = Len(files)

\* C9: the route of every asset is / followed by its relative path without a
\* trailing .gz, and no two assets share a route
C9_RoutePath ==
  Done =>
    /\ Len(AssetRoutes) = Len(files)
    /\ \A k \in 1..Len(files) : AssetRoutes[k] = SLASH \o logical(files[k].file)
    /\ \A j, k \in 1..Len(AssetRoutes) : j # k => AssetRoutes[j] # AssetRoutes[k]

\* C10: a route-serving unit carries the gzip indicator iff the stored name
\* of its asset ends with .gz
C10_CompressionIndicator ==
  Done =>
    \A u \in Units : \A k \in 1..Len(files) :
      SymbolOf(files[k].file) = u[1] => (u[2] <=> endsWith(files[k].file, GZ))

\* the identifiers of the byte arrays of the source file, in emission order
ArrayIds ==
  LET arrays == SelectSeq(out, LAMBDA f : f.k = "array_open")
  IN [k \in 1..Len(arrays) |-> arrays[k].id]

\* the identifiers the per-asset registration statements name, in emission order
RegIds ==
  LET stmts == SelectSeq(out, LAMBDA f :
                 f.k = "reg_stmt" /\ f.s # ROOT /\ f.id # indexHtmlPage)
  IN [k \in 1..Len(stmts) |-> stmts[k].id]

\* a C identifier of upper-case letters, digits and `_` that does not begin
\* with a digit
ValidIdentifier(id) ==
  /\ id # <<>>
  /\ \A k \in 1..Len(id) :
       IndexIn(id[k], Upper) > 0 \/ IndexIn(id[k], Digit) > 0 \/ id[k] = "_"
  /\ IndexIn(id[1], Digit) = 0

\* C11: the name of every emitted byte array consists of A-Z, 0-9 and `_`
\* only, is as long as the relative path of its asset, and does not begin
\* with a digit
C11_IdentifierValidity ==
  \A k \in 1..Len(ArrayIds) :
    /\ k <= Len(files)
    /\ Len(ArrayIds[k]) = Len(files[k].file)
    /\ ValidIdentifier(ArrayIds[k])

\* C12 as stated: two assets whose relative paths differ only in letter case
\* get the same byte-array name; every asset gets a name, and the name
\* derived again for its registration statement is the one of its byte array
C12_IdentifierDeterminism ==
  /\ \A j, k \in 1..Len(ArrayIds) :
       (j <= Len(files) /\ k <= Len(files)
          /\ toLowerCase(files[j].file) = toLowerCase(files[k].file))
         => ArrayIds[j] = ArrayIds[k]
  /\ (Done /\ failed = "none") => (ArrayIds = RegIds /\ Len(ArrayIds) = Len(files))

\* the letters A-Z of a path in lower case, every other character as it is
asciiLower(s) ==
  [k \in 1..Len(s) |-> IF IndexIn(s[k], Upper) > 0 THEN Lower[IndexIn(s[k], Upper)] ELSE s[k]]

\* C12 amended: two assets whose relative paths differ only in the case of
\* the letters a-z get the same byte-array name; every asset gets a name,
\* and the name derived again for its registration statement is the one of
\* its byte array
C12_AsciiCaseDeterminism ==
  /\ \A j, k \in 1..Len(ArrayIds) :
       (j <= Len(files) /\ k <= Len(files)
          /\ asciiLower(files[j].file) = asciiLower(files[k].file))
         => ArrayIds[j] = ArrayIds[k]
  /\ (Done /\ failed = "none") => (ArrayIds = RegIds /\ Len(ArrayIds) = Len(files))

\* a completed run over two files whose names differ only in the case of a
\* letter a-z, both arrays emitted under one name
C12_Witness ==
  /\ Done /\ failed = "none"
  /\ Len(files) = 2
  /\ files[1].file # files[2].file
  /\ asciiLower(files[1].file) = asciiLower(files[2].file)
  /\ Len(ArrayIds) = 2 /\ ArrayIds[1] = ArrayIds[2]

\* C13: main returns 0 exactly when no step of the run failed, and after a
\* failed filesystem operation it returns a non-zero code, never 0 and never
\* no value
C13_FailureReporting ==
  Returned =>
    IF failed = "none" THEN result = "0" ELSE result \notin {"0", "undefined"}

\* the steps that create the target directory, the header or the source file
OutputSteps ==
  {"mkdir", "createHeader", "renderHeader", "copyFile", "createSourceFile", "writeFile"}

\* the fragments a run emits for its assets: everything but the head of the
\* source file and what an earlier run left
AssetFragments ==
  {p \in 1..Len(out) :
     out[p].k \notin {"stale", "copyright", "template", "banner", "include"}}

\* C14: once the target directory, the header or the source file could not
\* be created or written, no byte array, route unit or registration is
\* emitted (and so no source file has been read for one)
C14_UnusableOutputAborts ==
  failed \in OutputSteps => AssetFragments = {}

\* where a relative path lies in the tree: the index of its first segment in
\* the listing of the root, of its second in the listing of that directory, ...
RECURSIVE positionOf(_, _)
positionOf(listing, path) ==
  LET hits == {k \in 1..Len(listing) :
                 \/ ~listing[k].dir /\ listing[k].name = path
                 \/ listing[k].dir /\ startsWith(path, listing[k].name \o SLASH)}
  IN IF hits = {} THEN <<>>
     ELSE LET k == CHOOSE h \in hits : TRUE
          IN IF listing[k].dir
             THEN <<k>> \o positionOf(listing[k].sub,
                                      SubSeq(path, Len(listing[k].name) + 2, Len(path)))
             ELSE <<k>>

\* depth-first order: at the first directory in which two paths part, the
\* entry of the first comes earlier in the listing
Before(p, q) ==
  \E n \in 1..Len(p) :
    /\ n <= Len(q)
    /\ p[n] < q[n]
    /\ \A m \in 1..(n - 1) : p[m] = q[m]

AssetSymbols == [k \in 1..Len(files) |-> SymbolOf(files[k].file)]

\* the identifiers of the route-serving units, in emission order
UnitIds ==
  LET units == SelectSeq(out, LAMBDA f : f.k \in {"unit_open", "web_content"})
  IN [k \in 1..Len(units) |-> units[k].id]

IsPrefix(a, b) == Len(a) <= Len(b) /\ a = SubSeq(b, 1, Len(a))

RECURSIVE IsSubsequence(_, _)
IsSubsequence(a, b) ==
  \/ a = <<>>
  \/ /\ b # <<>>
     /\ IF Head(a) = Head(b) THEN IsSubsequence(Tail(a), Tail(b))
        ELSE IsSubsequence(a, Tail(b))

ArrayKinds == {"length", "array_open", "hex", "byteArray", "array_close"}
UnitKinds == {"unit_open", "gzip_header", "send_P", "send", "web_content", "uri_record"}

C16_FullRebuild ==
  Done =>
    /\ header # "stale"
    /\ Positions({"stale"}) = {}

\* main is about to read the content of a source file
ReadsNext == pc \in {"writeData", "writeFileData", "renderSource"}

\* C17: no write of the output is still under way when main starts to read
\* the next source file; in a run without a failure the header is written
\* before the walk, and the head of the source file before any fragment of
\* an asset
C17_SequentialEffects ==
  /\ ReadsNext => flushed = Len(out)
  /\ (failed = "none" /\ Walked) => header = "written"
  /\ (failed = "none" /\ AssetFragments # {}) => out[1].k \in {"copyright", "banner"}

\* a fragment of one of these kinds declares the symbol before position p
DeclaredBefore(p, kinds, symbol) ==
  \E q \in 1..(p - 1) : out[q].k \in kinds /\ out[q].id = symbol

\* C18: in the source file of a completed run, every registration statement
\* names a Page function or record declared before it, every record names a
\* web_content declared before it, every unit names a byte array (and, where
\* it uses one, a length constant) declared before it, and the fallback
\* functions name a fallback_page record declared before them
C18_ReferentialIntegrity ==
  Done =>
    \A p \in 1..Len(out) :
      /\ out[p].k = "reg_stmt" => DeclaredBefore(p, {"unit_open", "uri_record"}, out[p].id)
      /\ out[p].k = "uri_record" => DeclaredBefore(p, {"web_content"}, out[p].ref)
      /\ out[p].k \in {"send_P", "send", "web_content"} =>
           /\ DeclaredBefore(p, {"array_open"}, out[p].ref)
           /\ gen # "eta" => DeclaredBefore(p, {"length"}, out[p].ref)
      /\ out[p].k = "fallback_fns" => DeclaredBefore(p, {"uri_record"}, out[p].ref)

====
